---- MODULE Spec2Model ----
(***************************************************************************)
(* A model of the repository collection pipeline (GitHubCommitCollector in *)
(* github_commit_collector.py) and of the two commit classifiers           *)
(* (generate_results_gemini.py, generate_results_gpt.py).                  *)
(*                                                                         *)
(* Text is a sequence of one-character strings, a date is a record         *)
(* [year, month, day], Python's None is the record None and a Python list  *)
(* l is List(l).  Remote objects (repositories, commits, pull requests)    *)
(* are records holding what the service would answer, including whether a  *)
(* call on them raises.                                                    *)
(***************************************************************************)
EXTENDS Integers, Sequences, FiniteSets, TLC

\* criteria     the collector's validation criteria (set by __init__)
\* repos        self.repos
\* valid_repos  self.valid_repos
\* call         the last call made and what it did
\* pending      the argument of the call about to be made, where a
\*              specification draws it in its initial state
\* history      what search_repos returned last (last_search) and what the
\*              search of the last completed run returned (last_run)
VARIABLES criteria, repos, valid_repos, call, pending, history

vars == <<criteria, repos, valid_repos, call, pending, history>>

(***************************************************************************)
(* Bounds of the model.                                                    *)
(***************************************************************************)
\* longest commit history a repository of the validator's inputs holds
MaxCommits == 2
\* longest repository list handed to filter_repos / returned by a search
MaxRepos == 2
\* most pull requests a repository holds
MaxPulls == 2
\* most repositories a search of the pipeline's specification finds
MaxFound == 1

(***************************************************************************)
(* Python values.                                                          *)
(***************************************************************************)
None == [isNone |-> TRUE, items |-> <<>>]
List(l) == [isNone |-> FALSE, items |-> l]

\* all sequences over S of length at most n
SeqUpTo(S, n) == UNION {[1..k -> S] : k \in 0..n}

Range(s) == {s[i] : i \in DOMAIN s}

(***************************************************************************)
(* Text: str.lower, the `in` substring test, str.strip, re.findall(\w+).   *)
(***************************************************************************)
UpperCase ==
  <<"A","B","C","D","E","F","G","H","I","J","K","L","M",
    "N","O","P","Q","R","S","T","U","V","W","X","Y","Z">>
LowerCase ==
  <<"a","b","c","d","e","f","g","h","i","j","k","l","m",
    "n","o","p","q","r","s","t","u","v","w","x","y","z">>
Digits == {"0","1","2","3","4","5","6","7","8","9"}
Whitespace == {" ", "\t", "\n", "\r"}

\* each upper-case letter's lower-case letter
LowerOf ==
  [ch \in {UpperCase[i] : i \in DOMAIN UpperCase} |->
     LowerCase[CHOOSE i \in DOMAIN UpperCase : UpperCase[i] = ch]]

LowerChar(ch) == IF ch \in DOMAIN LowerOf THEN LowerOf[ch] ELSE ch

\* str.lower()
Lower(s) == [i \in DOMAIN s |-> LowerChar(s[i])]

\* `sub in s`
Contains(s, sub) ==
  \E k \in 0..(Len(s) - Len(sub)) : SubSeq(s, k + 1, k + Len(sub)) = sub

\* a character matched by \w
WordChars == Range(UpperCase) \cup Range(LowerCase) \cup Digits \cup {"_"}

IsWordChar(ch) == ch \in WordChars

\* len(re.findall(r"\w+", msg)): the number of maximal runs of word characters
WordCount(msg) ==
  Cardinality({i \in DOMAIN msg :
                 /\ IsWordChar(msg[i])
                 /\ (i = 1 \/ ~IsWordChar(msg[i - 1]))})

\* str.strip()
Strip(s) ==
  LET keep == {i \in DOMAIN s : s[i] \notin Whitespace}
  IN  IF keep = {} THEN <<>>
      ELSE LET lo == CHOOSE i \in keep : \A j \in keep : i <= j
               hi == CHOOSE i \in keep : \A j \in keep : j <= i
           IN  [i \in 1..(hi - lo + 1) |-> s[lo + i - 1]]

\* str.split(): the maximal runs of non-whitespace characters, in order
RECURSIVE SplitFrom(_, _, _, _)
SplitFrom(s, i, cur, acc) ==
  IF i > Len(s) THEN (IF cur = <<>> THEN acc ELSE Append(acc, cur))
  ELSE IF s[i] \in Whitespace
       THEN SplitFrom(s, i + 1, <<>>, IF cur = <<>> THEN acc ELSE Append(acc, cur))
       ELSE SplitFrom(s, i + 1, Append(cur, s[i]), acc)

Split(s) == SplitFrom(s, 1, <<>>, <<>>)

(***************************************************************************)
(* Dates: datetime.isocalendar() and datetime.year.                        *)
(***************************************************************************)
Date(y, m, d) == [year |-> y, month |-> m, day |-> d]

IsLeap(y) == (y % 4 = 0) /\ ((y % 100 # 0) \/ (y % 400 = 0))

DaysBeforeYear(y) ==
  LET p == y - 1 IN p * 365 + (p \div 4) - (p \div 100) + (p \div 400)

DaysBeforeMonth(y, m) ==
  <<0, 31, 59, 90, 120, 151, 181, 212, 243, 273, 304, 334>>[m]
    + (IF m > 2 /\ IsLeap(y) THEN 1 ELSE 0)

\* proleptic Gregorian ordinal, 0001-01-01 is day 1 (a Monday)
Ymd2Ord(y, m, d) == DaysBeforeYear(y) + DaysBeforeMonth(y, m) + d

\* ordinal of the Monday that starts ISO week 1 of year y
IsoWeek1Monday(y) ==
  LET firstday     == Ymd2Ord(y, 1, 1)
      firstweekday == (firstday + 6) % 7
      monday       == firstday - firstweekday
  IN  IF firstweekday > 3 THEN monday + 7 ELSE monday

\* d.isocalendar(): (ISO year, ISO week number, ISO weekday)
IsoCalendar(d) ==
  LET today == Ymd2Ord(d.year, d.month, d.day)
      w     == (today - IsoWeek1Monday(d.year)) \div 7
  IN  IF today < IsoWeek1Monday(d.year)
      THEN LET t == today - IsoWeek1Monday(d.year - 1)
           IN  <<d.year - 1, (t \div 7) + 1, (t % 7) + 1>>
      ELSE IF w >= 52 /\ today >= IsoWeek1Monday(d.year + 1)
           THEN <<d.year + 1, 1, ((today - IsoWeek1Monday(d.year + 1)) % 7) + 1>>
           ELSE <<d.year, w + 1, ((today - IsoWeek1Monday(d.year)) % 7) + 1>>

(***************************************************************************)
(* Remote objects.                                                         *)
(*   commit : [sha, author, date, message]                                 *)
(*   fetch  : [items, raises]  what iterating repo.get_commits(...) gives: *)
(*            the items, and then an error when raises                     *)
(*   pull   : [number, title, body, user, created_at, state, merged,       *)
(*             merged_raises]  merged_raises: pr.is_merged() raises        *)
(*   pulls  : [list_raises, items, iter_raises]                            *)
(*   repo   : [owner, name, description, size, fork, commits, pulls]       *)
(***************************************************************************)
Commit(sha, author, date, message) ==
  [sha |-> sha, author |-> author, date |-> date, message |-> message]

Fetch(items, raises) == [items |-> items, raises |-> raises]

Pull(number, title, body, user, created_at, state, merged, merged_raises) ==
  [number |-> number, title |-> title, body |-> body, user |-> user,
   created_at |-> created_at, state |-> state, merged |-> merged,
   merged_raises |-> merged_raises]

Pulls(list_raises, items, iter_raises) ==
  [list_raises |-> list_raises, items |-> items, iter_raises |-> iter_raises]

NoPulls == Pulls(FALSE, <<>>, FALSE)

Repo(owner, name, description, size, fork, commits, pulls) ==
  [owner |-> owner, name |-> name, description |-> description, size |-> size,
   fork |-> fork, commits |-> commits, pulls |-> pulls]

\* repo.full_name: "owner/name"
FullName(repo) == repo.owner \o <<"/">> \o repo.name

(***************************************************************************)
(* __init__: the validation criteria.                                      *)
(***************************************************************************)
DefaultExclusionKeywords ==
  << <<"s","t","u","d","e","n","t">>,
     <<"e","x","e","r","c","i","s","e">>,
     <<"t","u","t","o","r","i","a","l">> >>

\* exclusion_keywords or ["student", "exercise", "tutorial"]
Construct(min_commits, min_weeks, min_words, keywords, exclude_forks) ==
  [min_commits_2024   |-> min_commits,
   min_active_weeks   |-> min_weeks,
   min_avg_words      |-> min_words,
   exclusion_keywords |-> IF keywords.isNone \/ keywords.items = <<>>
                          THEN DefaultExclusionKeywords
                          ELSE keywords.items,
   exclude_forks      |-> exclude_forks]

(***************************************************************************)
(* _repo_is_valid                                                          *)
(***************************************************************************)
\* line 60: self.exclude_forks and repo.fork
ForkExcluded(c, repo) == c.exclude_forks /\ repo.fork

\* the text of line 64 with .lower() left out
KeywordTextNoLower(repo) ==
  repo.name \o <<" ">> \o (IF repo.description.isNone THEN <<>> ELSE repo.description.items)

\* line 64: (repo.name + ' ' + (repo.description or '')).lower()
KeywordText(repo) ==
  Lower(repo.name \o <<" ">>
          \o (IF repo.description.isNone THEN <<>> ELSE repo.description.items))

\* line 65: any(kw.lower() in text for kw in self.exclusion_keywords)
HasExclusionKeyword(c, repo) ==
  \E i \in DOMAIN c.exclusion_keywords :
     Contains(KeywordText(repo), Lower(c.exclusion_keywords[i]))

\* the comparison of line 77 with <= for <
TooFewCommitsOffByOne(c, total) == total <= c.min_commits_2024

\* line 77: total_commits < self.min_commits_2024
TooFewCommits(c, total) == total < c.min_commits_2024

\* line 81: set((d.isocalendar()[1], d.year) for d in commit_dates)
ActiveWeeks(commit_dates) ==
  {<<IsoCalendar(commit_dates[i])[2], commit_dates[i].year>> : i \in DOMAIN commit_dates}

RECURSIVE SumWords(_, _)
SumWords(messages, i) ==
  IF i > Len(messages) THEN 0
  ELSE WordCount(messages[i]) + SumWords(messages, i + 1)

Max(a, b) == IF a >= b THEN a ELSE b

\* lines 86-87: sum(words) / max(total_commits, 1) < self.min_avg_words,
\* compared without rounding: sum < min_avg_words * max(total_commits, 1)
AvgWordsTooLow(c, messages) ==
  SumWords(messages, 1) < c.min_avg_words * Max(Len(messages), 1)

\* The outcome of one _repo_is_valid(repo) call:
\*   raised    the commit fetch raised, and the error left the function
\*   ret       the boolean returned (FALSE when raised)
\*   fetched   repo.get_commits was called
\*   stage     the return statement that ended the call
\*   weeks     len(weeks) as compared on line 82 (-1 when line 82 is not reached)
Verdict(raised, ret, fetched, stage, weeks) ==
  [raised |-> raised, ret |-> ret, fetched |-> fetched, stage |-> stage, weeks |-> weeks]

RepoIsValid(c, repo) ==
  IF ForkExcluded(c, repo) THEN Verdict(FALSE, FALSE, FALSE, "fork", -1)
  ELSE IF HasExclusionKeyword(c, repo) THEN Verdict(FALSE, FALSE, FALSE, "keyword", -1)
  ELSE IF repo.commits.raises THEN Verdict(TRUE, FALSE, TRUE, "raise", -1)
  ELSE LET commit_dates == [i \in DOMAIN repo.commits.items |-> repo.commits.items[i].date]
           messages     == [i \in DOMAIN repo.commits.items |-> repo.commits.items[i].message]
           total        == Len(commit_dates)
           nweeks       == Cardinality(ActiveWeeks(commit_dates))
       IN  IF TooFewCommits(c, total) THEN Verdict(FALSE, FALSE, TRUE, "commits", -1)
           ELSE IF nweeks < c.min_active_weeks
                THEN Verdict(FALSE, FALSE, TRUE, "weeks", nweeks)
           ELSE IF AvgWordsTooLow(c, messages)
                THEN Verdict(FALSE, FALSE, TRUE, "words", nweeks)
           ELSE Verdict(FALSE, TRUE, TRUE, "accept", nweeks)

(***************************************************************************)
(* Inputs of the validator's specification.                                *)
(***************************************************************************)
\* 2 Jan 2024 (ISO week 1 of 2024), 9 Jan 2024 (week 2 of 2024),
\* 29 Dec 2024 (week 52 of 2024), 31 Dec 2024 (week 1 of 2025)
SampleDates ==
  {Date(2024, 1, 2), Date(2024, 1, 9), Date(2024, 12, 29), Date(2024, 12, 31)}

\* "fix" (one word) and "a b_c, d" (three words)
SampleMessages ==
  { <<"f","i","x">>, <<"a"," ","b","_","c",","," ","d">> }

SampleCommits ==
  {Commit("c0", "dev", d, m) : d \in SampleDates, m \in SampleMessages}

ValidatorFetches ==
  {Fetch(items, FALSE) : items \in SeqUpTo(SampleCommits, MaxCommits)}
    \cup {Fetch(<<>>, TRUE)}

\* (name, description): "app"/None, "Tutorial-js"/"", "stu"/"dent",
\* "app"/"An Exercise", "lib"/"my app"
SampleTexts ==
  { << <<"a","p","p">>, None >>,
    << <<"T","u","t","o","r","i","a","l","-","j","s">>, List(<<>>) >>,
    << <<"s","t","u">>, List(<<"d","e","n","t">>) >>,
    << <<"a","p","p">>, List(<<"A","n"," ","E","x","e","r","c","i","s","e">>) >>,
    << <<"l","i","b">>, List(<<"m","y"," ","a","p","p">>) >> }

ValidatorRepos ==
  {Repo(<<"o">>, t[1], t[2], 1, f, c, NoPulls) :
     t \in SampleTexts, f \in BOOLEAN, c \in ValidatorFetches}

\* exclusion_keywords: not given (the defaults), or ["App"]
SampleKeywordLists == {None, List(<< <<"A","p","p">> >>)}

CriteriaChoices ==
  {Construct(mc, mw, ma, kw, ef) :
     mc \in 1..2, mw \in 1..2, ma \in 1..2, kw \in SampleKeywordLists, ef \in BOOLEAN}

NoCall == [op |-> "none"]

NoArg == [kind |-> "none"]

\* the collector after __init__
Constructed(choices) ==
  /\ criteria \in choices
  /\ repos = None
  /\ valid_repos = None
  /\ call = NoCall
  /\ history = [last_search |-> None, last_run |-> None]

\* one call of _repo_is_valid(repo), on the repository drawn initially
Validate ==
  /\ call = NoCall
  /\ pending.kind = "repo"
  /\ call' = [op |-> "_repo_is_valid", repo |-> pending.repo,
              verdict |-> RepoIsValid(criteria, pending.repo)]
  /\ UNCHANGED <<criteria, repos, valid_repos, pending, history>>

InitValidator ==
  /\ Constructed(CriteriaChoices)
  /\ pending \in {[kind |-> "repo", repo |-> r] : r \in ValidatorRepos}

NextValidator == Validate

SpecValidator == InitValidator /\ [][NextValidator]_vars

ValidatorCalled == call.op = "_repo_is_valid"

CommitDates(repo) ==
  [i \in DOMAIN repo.commits.items |-> repo.commits.items[i].date]

(***************************************************************************)
(* C1.  The active-week count the validator compares against               *)
(* min_active_weeks is the number of distinct (ISO week number, ISO        *)
(* week-year) pairs of the fetched author timestamps.                      *)
(***************************************************************************)
IsoWeekPairs(commit_dates) ==
  {<<IsoCalendar(commit_dates[i])[2], IsoCalendar(commit_dates[i])[1]>> :
     i \in DOMAIN commit_dates}

C1_ActiveWeeksAreIsoPairs ==
  (ValidatorCalled /\ call.verdict.weeks >= 0)
    => call.verdict.weeks = Cardinality(IsoWeekPairs(CommitDates(call.repo)))

(***************************************************************************)
(* C8.  As claimed: a repository whose lower-cased name followed directly  *)
(* by its description contains an exclusion keyword is rejected with no    *)
(* get_commits call.                                                       *)
(***************************************************************************)
DescriptionOrEmpty(repo) ==
  IF repo.description.isNone THEN <<>> ELSE repo.description.items

KeywordIn(text) ==
  \E i \in DOMAIN criteria.exclusion_keywords :
     Contains(Lower(text), Lower(criteria.exclusion_keywords[i]))

RejectedUnfetched ==
  /\ ~call.verdict.raised
  /\ call.verdict.ret = FALSE
  /\ ~call.verdict.fetched

C8_Original_NamePlusDescription ==
  (ValidatorCalled /\ KeywordIn(call.repo.name \o DescriptionOrEmpty(call.repo)))
    => RejectedUnfetched

(***************************************************************************)
(* C8, amended.  A repository whose lower-cased name, one space and        *)
(* description (empty when there is none) contains a lower-cased exclusion *)
(* keyword is rejected with no get_commits call.                           *)
(***************************************************************************)
C8_KeywordRejectsBeforeFetch ==
  (ValidatorCalled
     /\ KeywordIn(call.repo.name \o <<" ">> \o DescriptionOrEmpty(call.repo)))
    => RejectedUnfetched

\* a non-fork whose keyword shows only after lower-casing, and whose commit
\* fetch would have raised, was rejected by the keyword check
C8_Witness ==
  /\ ValidatorCalled
  /\ ~call.repo.fork
  /\ call.repo.commits.raises
  /\ KeywordIn(call.repo.name \o <<" ">> \o DescriptionOrEmpty(call.repo))
  /\ ~Contains(call.repo.name \o <<" ">> \o DescriptionOrEmpty(call.repo),
               <<"t","u","t","o","r","i","a","l">>)
  /\ call.repo.name = <<"T","u","t","o","r","i","a","l","-","j","s">>
  /\ call.verdict.stage = "keyword"

(***************************************************************************)
(* C9.  The validator checks fork, keyword, commit count, active weeks and *)
(* average words in that order and rejects on the first failing check      *)
(* whatever the later statistics are: an excluded fork is rejected without *)
(* looking at its commits, a non-fork, keyword-free repository with fewer  *)
(* commits than min_commits_2024 is rejected whatever its weeks and words  *)
(* are, and a repository failing no check is accepted.                     *)
(***************************************************************************)
C9_ChecksInOrder ==
  ValidatorCalled =>
    LET r        == call.repo
        v        == call.verdict
        excluded == criteria.exclude_forks /\ r.fork
        keyword  == KeywordIn(r.name \o <<" ">> \o DescriptionOrEmpty(r))
        total    == Len(r.commits.items)
        nweeks   == Cardinality(ActiveWeeks(CommitDates(r)))
        words    == SumWords([i \in DOMAIN r.commits.items |-> r.commits.items[i].message], 1)
        fewC     == total < criteria.min_commits_2024
        fewW     == nweeks < criteria.min_active_weeks
        lowAvg   == words < criteria.min_avg_words * (IF total > 1 THEN total ELSE 1)
        fetchOk  == ~excluded /\ ~keyword /\ ~r.commits.raises
    IN  /\ excluded => (v.stage = "fork" /\ ~v.ret /\ ~v.raised /\ ~v.fetched)
        /\ (~excluded /\ keyword) => (v.stage = "keyword" /\ ~v.ret /\ ~v.fetched)
        /\ (fetchOk /\ fewC) => (v.stage = "commits" /\ ~v.ret)
        /\ (fetchOk /\ ~fewC /\ fewW) => (v.stage = "weeks" /\ ~v.ret)
        /\ (fetchOk /\ ~fewC /\ ~fewW /\ lowAvg) => (v.stage = "words" /\ ~v.ret)
        /\ (fetchOk /\ ~fewC /\ ~fewW /\ ~lowAvg) => (v.stage = "accept" /\ v.ret)

\* a non-fork, keyword-free repository one commit short of the threshold,
\* whose weeks and words would pass, was rejected by the commit-count check
C9_Witness ==
  /\ ValidatorCalled
  /\ ~call.repo.fork
  /\ ~KeywordIn(call.repo.name \o <<" ">> \o DescriptionOrEmpty(call.repo))
  /\ ~call.repo.commits.raises
  /\ Len(call.repo.commits.items) = criteria.min_commits_2024 - 1
  /\ Cardinality(ActiveWeeks(CommitDates(call.repo))) >= criteria.min_active_weeks
  /\ WordCount(call.repo.commits.items[1].message) >= criteria.min_avg_words
  /\ call.verdict.stage = "commits"
  /\ call.verdict.ret = FALSE

(***************************************************************************)
(* filter_repos                                                            *)
(***************************************************************************)
\* line 103: sig = (repo.full_name, repo.size)
Signature(repo) == <<FullName(repo), repo.size>>

\* line 104: sig in seen_signatures
IsDuplicate(sig, seen_signatures) == sig \in seen_signatures

\* line 106 left out
SeenAddForgotten(seen_signatures, sig) == seen_signatures

\* line 106: seen_signatures.add(sig)
SeenAdd(seen_signatures, sig) == seen_signatures \cup {sig}

\* The loop of lines 99-107 from candidate i on.  acc holds the locals valid
\* and seen_signatures and what the loop did: kept (the positions appended to
\* valid), fetched (the positions whose commits were fetched), validated (the
\* number of _repo_is_valid calls) and raised (an error left the loop).
RECURSIVE FilterLoop(_, _, _, _)
FilterLoop(c, input, i, acc) ==
  IF i > Len(input) THEN acc
  ELSE LET repo == input[i]
           v    == RepoIsValid(c, repo)
           sig  == Signature(repo)
           seen == [acc EXCEPT !.validated = i,
                               !.fetched = IF v.fetched THEN Append(@, i) ELSE @]
       IN  IF v.raised THEN [seen EXCEPT !.raised = TRUE]
           ELSE IF ~v.ret THEN FilterLoop(c, input, i + 1, seen)
           ELSE IF IsDuplicate(sig, acc.seen_signatures)
                THEN FilterLoop(c, input, i + 1, seen)
           ELSE FilterLoop(c, input, i + 1,
                  [seen EXCEPT !.seen_signatures = SeenAdd(@, sig),
                               !.valid = Append(@, repo),
                               !.kept = Append(@, i)])

\* lines 96-97: valid = [], seen_signatures = set()
FilterStart ==
  [valid |-> <<>>, seen_signatures |-> {}, kept |-> <<>>, fetched |-> <<>>,
   validated |-> 0, raised |-> FALSE]

\* line 108 run even when an error left the loop
FilterStoredAlways(old, acc) == List(acc.valid)

\* line 108: self.valid_repos = valid, reached only when no error left the loop
FilterStored(old, acc) == IF acc.raised THEN old ELSE List(acc.valid)

\* filter_repos has no return statement: a call that ends returns None
FilterReturn(acc) == None

\* one call of filter_repos(input)
FilterRepos(inputs) ==
  \E input \in inputs :
     LET acc == FilterLoop(criteria, input, 1, FilterStart)
     IN  /\ valid_repos' = FilterStored(valid_repos, acc)
         /\ call' = [op |-> "filter_repos", args |-> input, raised |-> acc.raised,
                     ret |-> FilterReturn(acc), kept |-> acc.kept,
                     fetched |-> acc.fetched, validated |-> acc.validated]
         /\ UNCHANGED <<criteria, repos, pending, history>>

(***************************************************************************)
(* Inputs of the filter's specification.                                   *)
(***************************************************************************)
\* one commit on 2 Jan 2024 with the message "fix"
OneCommit == <<Commit("c1", "dev", Date(2024, 1, 2), <<"f","i","x">>)>>

\* pull request 1: open, no body, no user
PullOpen ==
  Pull(1, <<"t">>, None, None, Date(2024, 3, 1), "open", FALSE, FALSE)

\* pull request 2: closed and merged, whose is_merged() lookup raises
PullLookupFails ==
  Pull(2, <<"u">>, List(<<"b">>), List(<<"d","e","v">>), Date(2024, 2, 1), "closed",
       TRUE, TRUE)

\* o/app of size 1, with pull request 1
RepoApp ==
  Repo(<<"o">>, <<"a","p","p">>, None, 1, FALSE, Fetch(OneCommit, FALSE),
       Pulls(FALSE, <<PullOpen>>, FALSE))

\* o/app of size 1 again, seen with the description "a tutorial"
RepoAppTutorial ==
  [RepoApp EXCEPT !.description = List(<<"a"," ","t","u","t","o","r","i","a","l">>)]

\* o/app of size 2
RepoAppGrown == [RepoApp EXCEPT !.size = 2]

\* o/lib, whose commit fetch raises
RepoLibFailing ==
  [RepoApp EXCEPT !.name = <<"l","i","b">>, !.commits = Fetch(<<>>, TRUE)]

\* o/kit, a fork whose commit fetch raises
RepoKitFork ==
  [RepoApp EXCEPT !.name = <<"k","i","t">>, !.fork = TRUE, !.commits = Fetch(<<>>, TRUE)]

FilterUniverse == {RepoApp, RepoAppTutorial, RepoAppGrown, RepoLibFailing, RepoKitFork}

FilterInputs == SeqUpTo(FilterUniverse, MaxRepos)

FilterCriteria == {Construct(1, 1, 1, None, ef) : ef \in BOOLEAN}

InitFilter == Constructed(FilterCriteria) /\ pending = NoArg

NextFilter == FilterRepos(FilterInputs)

SpecFilter == InitFilter /\ [][NextFilter]_vars

FilterCalled == call.op = "filter_repos"

Passes(repo) ==
  LET v == RepoIsValid(criteria, repo) IN ~v.raised /\ v.ret

\* the repositories of input that pass the validator, in input order, an
\* entry dropped when an earlier passing entry has its signature
RECURSIVE PassingDeduplicated(_, _)
PassingDeduplicated(input, i) ==
  IF i > Len(input) THEN <<>>
  ELSE IF Passes(input[i])
          /\ \A h \in 1..(i - 1) :
                Signature(input[h]) = Signature(input[i]) => ~Passes(input[h])
       THEN <<input[i]>> \o PassingDeduplicated(input, i + 1)
       ELSE PassingDeduplicated(input, i + 1)

(***************************************************************************)
(* C2.  filter_repos returns to its caller the sub-sequence of the input   *)
(* that passes the validator, in input order, duplicates removed.          *)
(***************************************************************************)
C2_FilterReturnsAccepted ==
  (FilterCalled /\ ~call.raised)
    => call.ret = List(PassingDeduplicated(call.args, 1))

(***************************************************************************)
(* C3.  As claimed: no two accepted repositories share a signature, and of *)
(* two input entries with the same signature the later one is never        *)
(* retained.                                                               *)
(***************************************************************************)
NoSharedSignature(l) ==
  \A i, j \in DOMAIN l : Signature(l[i]) = Signature(l[j]) => i = j

C3_Original_OnlyFirstRetained ==
  /\ ~valid_repos.isNone => NoSharedSignature(valid_repos.items)
  /\ (FilterCalled /\ ~call.raised) =>
       \A i, j \in DOMAIN call.args :
          (i < j /\ Signature(call.args[i]) = Signature(call.args[j]))
            => j \notin Range(call.kept)

(***************************************************************************)
(* C3, amended.  No two accepted repositories share a signature, and of    *)
(* the input entries with one signature that pass the validator exactly    *)
(* the first is retained.                                                  *)
(***************************************************************************)
C3_FirstPassingRetained ==
  /\ ~valid_repos.isNone => NoSharedSignature(valid_repos.items)
  /\ (FilterCalled /\ ~call.raised) =>
       /\ valid_repos.items = [k \in DOMAIN call.kept |-> call.args[call.kept[k]]]
       /\ \A j \in DOMAIN call.args :
            j \in Range(call.kept)
              <=> /\ Passes(call.args[j])
                  /\ \A i \in 1..(j - 1) :
                        Signature(call.args[i]) = Signature(call.args[j])
                          => ~Passes(call.args[i])

\* two passing entries with one signature were filtered: the first was kept
C3_Witness ==
  /\ FilterCalled
  /\ ~call.raised
  /\ Len(call.args) >= 2
  /\ Passes(call.args[1])
  /\ call.args[2] = call.args[1]
  /\ call.kept = <<1>>

(***************************************************************************)
(* C10.  When the commit fetch of a candidate raises during filter_repos,  *)
(* the error leaves filter_repos, no later candidate is validated, and     *)
(* valid_repos stays what it was before the call.                          *)
(***************************************************************************)
FetchRaises(repo) == RepoIsValid(criteria, repo).raised

C10_FetchErrorAborts ==
  [][ \A j \in DOMAIN call'.args :
        (/\ call'.op = "filter_repos"
         /\ FetchRaises(call'.args[j])
         /\ \A i \in 1..(j - 1) : ~FetchRaises(call'.args[i]))
          => /\ call'.raised
             /\ call'.validated = j
             /\ \A k \in Range(call'.fetched) : k <= j
             /\ valid_repos' = valid_repos ]_vars

\* a call raised on its first candidate with a second one waiting, and the
\* list an earlier call stored is still there
C10_Witness ==
  /\ FilterCalled
  /\ call.raised
  /\ call.validated = 1
  /\ Len(call.args) = 2
  /\ Passes(call.args[2])
  /\ ~valid_repos.isNone
  /\ Len(valid_repos.items) = 2

(***************************************************************************)
(* search_repos and run                                                    *)
(***************************************************************************)
\* what self.g.search_repositories(query, 'stars', 'desc') answers: the
\* ranked repositories, or an error
Found(items, raises) == [items |-> items, raises |-> raises]

Min(a, b) == IF a <= b THEN a ELSE b

\* line 51: [page*per_page - per_page : page*per_page] of the ranked result
PageSlice(items, page, per_page) ==
  SubSeq(items, page * per_page - per_page + 1, Min(page * per_page, Len(items)))

\* lines 49-53: the pages 1..max_pages, one after the other
RECURSIVE SearchPages(_, _, _, _)
SearchPages(items, page, per_page, max_pages) ==
  IF page > max_pages THEN <<>>
  ELSE PageSlice(items, page, per_page)
         \o SearchPages(items, page + 1, per_page, max_pages)

\* search_repos(query, per_page, max_pages): the list returned, or the
\* service's error; nothing is stored
SearchRepos(found, per_page, max_pages) ==
  IF found.raises /\ max_pages >= 1
  THEN [raised |-> TRUE, ret |-> None]
  ELSE [raised |-> FALSE, ret |-> List(SearchPages(found.items, 1, per_page, max_pages))]

SearchedLast(h, r) == IF r.raised THEN h.last_search ELSE r.ret

\* a direct call of search_repos
SearchReposCall(founds) ==
  \E found \in founds, per_page \in 1..2, max_pages \in 1..2 :
     LET r == SearchRepos(found, per_page, max_pages)
     IN  /\ call' = [op |-> "search_repos", raised |-> r.raised, ret |-> r.ret]
         /\ history' = [history EXCEPT !.last_search = SearchedLast(history, r)]
         /\ UNCHANGED <<criteria, repos, valid_repos, pending>>

\* line 169: self.repos = self.search_repos(...)
RunStored(old, r) == IF r.raised THEN old ELSE r.ret

\* lines 168-172: run ends after the search; the filter call is commented
\* out and there is no return statement
Run(founds) ==
  \E found \in founds, per_page \in 1..2, max_pages \in 1..2 :
     LET r == SearchRepos(found, per_page, max_pages)
     IN  /\ repos' = RunStored(repos, r)
         /\ call' = [op |-> "run", raised |-> r.raised, ret |-> None]
         /\ history' = [last_search |-> SearchedLast(history, r),
                        last_run    |-> IF r.raised THEN history.last_run ELSE r.ret]
         /\ UNCHANGED <<criteria, valid_repos, pending>>

(***************************************************************************)
(* collect_commits                                                         *)
(***************************************************************************)
\* lines 119-125
CommitRow(repo, commit) ==
  [repo_full_name |-> FullName(repo), commit_sha |-> commit.sha,
   author |-> commit.author, date |-> commit.date,
   message |-> Strip(commit.message)]

\* lines 116-125 from repository i on: the rows, or the first fetch's error
RECURSIVE CommitRows(_, _, _)
CommitRows(list, i, data) ==
  IF i > Len(list) THEN [raised |-> FALSE, data |-> data]
  ELSE IF list[i].commits.raises THEN [raised |-> TRUE, data |-> data]
  ELSE CommitRows(list, i + 1,
         data \o [k \in DOMAIN list[i].commits.items |->
                    CommitRow(list[i], list[i].commits.items[k])])

\* collect_commits(): iterating self.valid_repos = None is a TypeError
CollectCommits ==
  LET r == IF valid_repos.isNone THEN [raised |-> TRUE, data |-> <<>>]
           ELSE CommitRows(valid_repos.items, 1, <<>>)
  IN  /\ call' = [op |-> "collect_commits", raised |-> r.raised,
                  ret |-> IF r.raised THEN None ELSE List(r.data)]
      /\ UNCHANGED <<criteria, repos, valid_repos, pending, history>>

(***************************************************************************)
(* collect_pull_requests                                                   *)
(***************************************************************************)
\* lines 142-151
PullRow(repo, pr) ==
  [repo_full_name |-> FullName(repo), pr_number |-> pr.number, title |-> pr.title,
   body |-> IF pr.body.isNone THEN <<>> ELSE pr.body.items,
   author |-> IF pr.user.isNone THEN <<"u","n","k","n","o","w","n">> ELSE pr.user.items,
   created_at |-> pr.created_at, state |-> pr.state, merged |-> pr.merged]

\* lines 141-151: a row is appended to data for each pull request in turn,
\* until pr.is_merged() raises
RECURSIVE PullRowsFrom(_, _)
PullRowsFrom(repo, k) ==
  IF k > Len(repo.pulls.items) \/ repo.pulls.items[k].merged_raises THEN <<>>
  ELSE <<PullRow(repo, repo.pulls.items[k])>> \o PullRowsFrom(repo, k + 1)

\* lines 138-153: what one repository adds to data; an error in get_pulls or
\* totalCount comes before any row, and the except clause only prints
PullRows(repo) ==
  IF repo.pulls.list_raises THEN <<>> ELSE PullRowsFrom(repo, 1)

\* lines 135-136 left out
DefaultReposForgotten(arg, self_repos) == arg

\* lines 135-136: if repos is None: repos = self.repos
DefaultRepos(arg, self_repos) == IF arg.isNone THEN self_repos ELSE arg

\* lines 137-153: the rows of every repository in turn; added[i] is the
\* number of rows repository i added
RECURSIVE PullsLoop(_, _, _)
PullsLoop(list, i, acc) ==
  IF i > Len(list) THEN acc
  ELSE PullsLoop(list, i + 1,
         [data  |-> acc.data \o PullRows(list[i]),
          added |-> Append(acc.added, Len(PullRows(list[i])))])

\* collect_pull_requests(arg): iterating None is a TypeError outside the try
CollectPullRequests(arg) ==
  LET source == DefaultRepos(arg, repos)
      acc    == IF source.isNone THEN [data |-> <<>>, added |-> <<>>]
                ELSE PullsLoop(source.items, 1, [data |-> <<>>, added |-> <<>>])
  IN  /\ call' = [op |-> "collect_pull_requests", arg |-> arg, source |-> source,
                  raised |-> source.isNone,
                  ret |-> IF source.isNone THEN None ELSE List(acc.data),
                  added |-> acc.added]
      /\ UNCHANGED <<criteria, repos, valid_repos, pending, history>>

(***************************************************************************)
(* The pipeline's specification: any sequence of search_repos, run,        *)
(* filter_repos, collect_commits and collect_pull_requests calls.          *)
(***************************************************************************)
CollectorUniverse == {RepoApp, RepoLibFailing}

CollectorLists == SeqUpTo(CollectorUniverse, MaxFound)

CollectorFounds ==
  {Found(items, FALSE) : items \in CollectorLists} \cup {Found(<<>>, TRUE)}

CollectPullRequestsCall ==
  \E arg \in {None} \cup {List(l) : l \in CollectorLists} : CollectPullRequests(arg)

InitCollector == Constructed(FilterCriteria) /\ pending = NoArg

NextCollector ==
  \/ SearchReposCall(CollectorFounds)
  \/ Run(CollectorFounds)
  \/ FilterRepos(CollectorLists)
  \/ CollectCommits
  \/ CollectPullRequestsCall

SpecCollector == InitCollector /\ [][NextCollector]_vars

PullsCollectedByDefault == call.op = "collect_pull_requests" /\ call.arg.isNone

PullTable(list) == List(PullsLoop(list, 1, [data |-> <<>>, added |-> <<>>]).data)

(***************************************************************************)
(* C4.  As claimed: collect_pull_requests called without a list collects   *)
(* from what the most recent search_repos returned, whatever calls came    *)
(* before.                                                                 *)
(***************************************************************************)
C4_Original_LastSearchIsDefault ==
  (PullsCollectedByDefault /\ ~history.last_search.isNone)
    => /\ ~call.raised
       /\ call.source = history.last_search
       /\ call.ret = PullTable(history.last_search.items)

(***************************************************************************)
(* C4, amended.  collect_pull_requests called without a list collects from *)
(* the search result the most recent completed run stored; direct          *)
(* search_repos calls and filter_repos calls do not change it, and with no *)
(* completed run the call fails.                                           *)
(***************************************************************************)
C4_LastRunIsDefault ==
  PullsCollectedByDefault =>
    IF history.last_run.isNone
    THEN call.raised /\ call.ret.isNone
    ELSE /\ ~call.raised
         /\ call.source = history.last_run
         /\ call.ret = PullTable(history.last_run.items)

\* after a run that found a repository and a later direct search that found
\* none, the pull requests were collected from the run's result
C4_Witness ==
  /\ PullsCollectedByDefault
  /\ ~history.last_run.isNone
  /\ Len(history.last_run.items) >= 1
  /\ history.last_search = List(<<>>)
  /\ ~call.raised
  /\ Len(call.ret.items) >= 1

(***************************************************************************)
(* C7.  A completed run has searched, filtered and collected: it returns   *)
(* the table of the commits of the accepted repositories, and valid_repos  *)
(* holds the accepted repositories.                                        *)
(***************************************************************************)
C7_RunIsFullPipeline ==
  (call.op = "run" /\ ~call.raised) =>
    /\ ~valid_repos.isNone
    /\ valid_repos = List(PassingDeduplicated(history.last_search.items, 1))
    /\ call.ret = List(CommitRows(valid_repos.items, 1, <<>>).data)

(***************************************************************************)
(* The pull request collector's specification: one call of                 *)
(* collect_pull_requests on the list drawn initially.                      *)
(***************************************************************************)
SamplePulls == {PullOpen, PullLookupFails}

PullOutcomes ==
  {Pulls(FALSE, items, r) : items \in SeqUpTo(SamplePulls, MaxPulls), r \in BOOLEAN}
    \cup {Pulls(TRUE, <<>>, FALSE)}

PullUniverse == {[RepoApp EXCEPT !.pulls = p] : p \in PullOutcomes}

CollectPullsPending ==
  /\ call = NoCall
  /\ pending.kind = "repos"
  /\ CollectPullRequests(List(pending.repos))

InitPulls ==
  /\ Constructed({Construct(1, 1, 1, None, TRUE)})
  /\ pending \in {[kind |-> "repos", repos |-> l] : l \in SeqUpTo(PullUniverse, MaxRepos)}

NextPulls == CollectPullsPending

SpecPulls == InitPulls /\ [][NextPulls]_vars

\* fetching the repository's pull requests raises at some point
PullFetchFails(repo) ==
  \/ repo.pulls.list_raises
  \/ repo.pulls.iter_raises
  \/ \E k \in DOMAIN repo.pulls.items : repo.pulls.items[k].merged_raises

(***************************************************************************)
(* C5.  In collect_pull_requests a repository whose pull request fetch     *)
(* raises at any point adds no row, and every other repository of the list *)
(* adds one row per pull request.                                          *)
(***************************************************************************)
C5_FailedRepoContributesNothing ==
  (call.op = "collect_pull_requests" /\ ~call.source.isNone) =>
    /\ ~call.raised
    /\ Len(call.added) = Len(call.source.items)
    /\ \A i \in DOMAIN call.source.items :
          call.added[i] = IF PullFetchFails(call.source.items[i]) THEN 0
                          ELSE Len(call.source.items[i].pulls.items)

(***************************************************************************)
(* The commit classifiers.  A response is [raises, text]: the service call *)
(* raised, or answered text.                                               *)
(***************************************************************************)
Response(raises, text) == [raises |-> raises, text |-> text]

Corrective == <<"C","o","r","r","e","c","t","i","v","e">>
Adaptive == <<"A","d","a","p","t","i","v","e">>
Perfective == <<"P","e","r","f","e","c","t","i","v","e">>
Preventive == <<"P","r","e","v","e","n","t","i","v","e">>
Development == <<"D","e","v","e","l","o","p","m","e","n","t">>

\* generate_results_gemini.py line 15
categories == {Corrective, Adaptive, Perfective, Preventive, Development}

Unknown == <<"U","n","k","n","o","w","n">>
NoResponse == <<"N","o"," ","r","e","s","p","o","n","s","e">>
ErrorResult == <<"E","r","r","o","r">>

\* generate_results_gemini.py lines 31-44; split()[0] of a blank text is an
\* IndexError, caught by the except clause
GeminiClassifyCommit(response) ==
  IF response.raises THEN ErrorResult
  ELSE IF response.text = <<>> THEN NoResponse
  ELSE LET words == Split(Strip(response.text))
       IN  IF words = <<>> THEN ErrorResult
           ELSE IF words[1] \in categories THEN words[1]
           ELSE Unknown

\* generate_results_gpt.py lines 39-49: the stripped content is returned
GptClassifyCommit(response) ==
  IF response.raises THEN ErrorResult ELSE Strip(response.text)

ClassifyGemini ==
  /\ call = NoCall
  /\ pending.kind = "response"
  /\ call' = [op |-> "classify_commit", variant |-> "gemini",
              response |-> pending.response,
              ret |-> GeminiClassifyCommit(pending.response)]
  /\ UNCHANGED <<criteria, repos, valid_repos, pending, history>>

ClassifyGpt ==
  /\ call = NoCall
  /\ pending.kind = "response"
  /\ call' = [op |-> "classify_commit", variant |-> "gpt",
              response |-> pending.response,
              ret |-> GptClassifyCommit(pending.response)]
  /\ UNCHANGED <<criteria, repos, valid_repos, pending, history>>

\* the words a response starts with: the five labels, "Banana",
\* "corrective", "Corrective." and nothing
SampleWords ==
  categories \cup {<<"B","a","n","a","n","a">>, <<"c","o","r","r","e","c","t","i","v","e">>, <<"C","o","r","r","e","c","t","i","v","e",".">>, <<>>}

\* nothing, " " or a line break before the word
SampleLeads == {<<>>, <<" ">>, <<"\n">>}

\* nothing, " extra text" or a line break after the word
SampleTrails == {<<>>, <<" ","e","x","t","r","a"," ","t","e","x","t">>, <<"\n">>}

SampleResponses ==
  {Response(FALSE, l \o w \o t) : l \in SampleLeads, w \in SampleWords, t \in SampleTrails}
    \cup {Response(TRUE, <<>>)}

\* the classifier scripts build no collector: its variables stay as they are
InitClassify ==
  /\ Constructed({Construct(1, 1, 1, None, TRUE)})
  /\ pending \in {[kind |-> "response", response |-> r] : r \in SampleResponses}

NextClassify == ClassifyGemini \/ ClassifyGpt

SpecClassify == InitClassify /\ [][NextClassify]_vars

(***************************************************************************)
(* C6.  In both classifiers a response that did not fail is decided by its *)
(* first whitespace-delimited token: the result is that token when it is   *)
(* one of the five category labels, and "Unknown" otherwise.  (A response  *)
(* with no token at all has no first token and is left out.)               *)
(***************************************************************************)
C6_FirstTokenDecides ==
  (/\ call.op = "classify_commit"
   /\ ~call.response.raises
   /\ Split(call.response.text) # <<>>) =>
    LET words == Split(call.response.text)
    IN  call.ret = IF words[1] \in categories THEN words[1] ELSE Unknown

====
